---- MODULE Spec2Model ----
(***************************************************************************)
(* A model of process_pdfs (src/process_pdfs.py): the batch loop over the  *)
(* PDFs of ./in, the three OCR client calls, image discovery, the image    *)
(* save loop with its fallback chain, and the markdown rewriting.          *)
(*                                                                         *)
(* Text (file names, identifiers, markdown) is a sequence of one-character *)
(* strings, so that splitext, split and the regular expressions are        *)
(* computed character by character as Python computes them.                *)
(***************************************************************************)
EXTENDS Integers, Sequences, FiniteSets, TLC

(***************************************************************************)
(* Text helpers                                                            *)
(***************************************************************************)
NL == "\n"

SetMax(S) == CHOOSE x \in S : \A y \in S : y <= x

\* str.rfind(c), 1-based; 0 when c does not occur
RFind(s, c) ==
  LET I == {i \in 1..Len(s) : s[i] = c}
  IN  IF I = {} THEN 0 ELSE SetMax(I)

\* s[a..b] (1-based, inclusive), empty when a > b
Slice(s, a, b) == [k \in 1..(b - a + 1) |-> s[a + k - 1]]

\* whether lit occurs in t at position i
StartsWithAt(t, i, lit) ==
  /\ i + Len(lit) - 1 <= Len(t)
  /\ \A k \in 1..Len(lit) : t[i + k - 1] = lit[k]

\* posixpath.splitext(p): <<root, ext>>
splitext(p) ==
  LET sepIndex == RFind(p, "/")
      dotIndex == RFind(p, ".")
  IN  IF /\ dotIndex > sepIndex
         /\ \E k \in (sepIndex + 1)..(dotIndex - 1) : p[k] # "."
      THEN <<Slice(p, 1, dotIndex - 1), Slice(p, dotIndex, Len(p))>>
      ELSE <<p, <<>> >>

\* os.path.splitext(s)[0]
BaseId(s) == splitext(s)[1]

\* img_id.split('.')[-1] if '.' in img_id else 'jpeg'
ExtOf(img_id) ==
  IF RFind(img_id, ".") > 0
  THEN Slice(img_id, RFind(img_id, ".") + 1, Len(img_id))
  ELSE <<"j", "p", "e", "g">>

\* Path(filename).stem
PathStem(filename) ==
  LET i == RFind(filename, ".")
  IN  IF 1 < i /\ i < Len(filename) THEN Slice(filename, 1, i - 1) ELSE filename

(***************************************************************************)
(* The two regular expressions of process_pdfs                             *)
(***************************************************************************)
\* The first position e >= i with lit at e such that "." matches all of
\* t[i..e-1]; 0 when a newline or the end of t comes first
RECURSIVE LazyFind(_, _, _)
LazyFind(t, i, lit) ==
  IF i + Len(lit) - 1 > Len(t) THEN 0
  ELSE IF StartsWithAt(t, i, lit) THEN i
  ELSE IF t[i] = NL THEN 0
  ELSE LazyFind(t, i + 1, lit)

\* The lazy alt text of  !\[(.*?)\]\((.*?)\)  from position i on: the first
\* "](" after which a ")" is found on the same line. <<e, f>>: the positions
\* of that "]" and of that ")"; <<>> when there is none.
RECURSIVE LazyAlt(_, _)
LazyAlt(t, i) ==
  LET e == LazyFind(t, i, <<"]", "(">>)
  IN  IF e = 0 THEN <<>>
      ELSE LET f == LazyFind(t, e + 2, <<")">>)
           IN  IF f # 0 THEN <<e, f>> ELSE LazyAlt(t, e + 1)

\* A match of  !\[(.*?)\]\((.*?)\)  starting at s: <<alt, src, end>>, or <<>>
RefMatchAt(t, s) ==
  IF ~StartsWithAt(t, s, <<"!", "[">>) THEN <<>>
  ELSE LET m == LazyAlt(t, s + 2)
       IN  IF m = <<>> THEN <<>>
           ELSE <<Slice(t, s + 2, m[1] - 1), Slice(t, m[1] + 2, m[2] - 1), m[2]>>

\* re.findall(r'!\[(.*?)\]\((.*?)\)', t) from position i on: the sequence of
\* <<alt, src>> of the non-overlapping matches, leftmost first
RECURSIVE FindAllFrom(_, _)
FindAllFrom(t, i) ==
  IF i > Len(t) THEN <<>>
  ELSE LET m == RefMatchAt(t, i)
       IN  IF m = <<>> THEN FindAllFrom(t, i + 1)
           ELSE << <<m[1], m[2]>> >> \o FindAllFrom(t, m[3] + 1)

FindAll(t) == FindAllFrom(t, 1)

\* A match of  !\[.*?\]\(<lit>\)  starting at s: its last position, or 0
SubMatchEnd(t, s, lit) ==
  IF ~StartsWithAt(t, s, <<"!", "[">>) THEN 0
  ELSE LET tail == <<"]", "(">> \o lit \o <<")">>
           e == LazyFind(t, s + 2, tail)
       IN  IF e = 0 THEN 0 ELSE e + Len(tail) - 1

\* re.sub('!\\[.*?\\]\\(' + re.escape(lit) + '\\)', repl, t) from position i on
RECURSIVE ReSubFrom(_, _, _, _)
ReSubFrom(t, i, lit, repl) ==
  IF i > Len(t) THEN <<>>
  ELSE LET e == SubMatchEnd(t, i, lit)
       IN  IF e > 0 THEN repl \o ReSubFrom(t, e + 1, lit, repl)
           ELSE <<t[i]>> \o ReSubFrom(t, i + 1, lit, repl)

ReSub(t, lit, repl) == ReSubFrom(t, 1, lit, repl)

(***************************************************************************)
(* Values of the OCR result                                                *)
(***************************************************************************)
\* An optional value: <<>> is None (or a missing attribute), <<v>> is v
Nothing == <<>>

Just(v) == <<v>>

\* The value of one character of the base64 alphabet (the ones used here)
B64Val(c) ==
  CASE c = "A" -> 0  [] c = "I" -> 8  [] c = "Q" -> 16 [] c = "U" -> 20
    [] c = "g" -> 32 [] c = "w" -> 48 [] OTHER -> 0

\* The bytes of one group of four base64 characters
B64Group(g) ==
  LET n == B64Val(g[1]) * 262144 + B64Val(g[2]) * 4096
           + B64Val(g[3]) * 64 + B64Val(g[4])
      b1 == n \div 65536
      b2 == (n \div 256) % 256
      b3 == n % 256
  IN  IF g[3] = "=" THEN <<b1>>
      ELSE IF g[4] = "=" THEN <<b1, b2>>
      ELSE <<b1, b2, b3>>

\* base64.b64decode(s) for s over the base64 alphabet: Just(bytes), or
\* Nothing when it raises binascii.Error (incorrect padding)
RECURSIVE B64Bytes(_)
B64Bytes(s) ==
  IF s = <<>> THEN <<>>
  ELSE B64Group(Slice(s, 1, 4)) \o B64Bytes(Slice(s, 5, Len(s)))

b64decode(s) == IF Len(s) % 4 # 0 THEN Nothing ELSE Just(B64Bytes(s))

\* Identifiers the OCR service uses: one without an extension, the same with
\* an extension, and an unrelated one
IdA == <<"a">>

IdAP == <<"a", ".", "p">>

IdB == <<"b">>

Ids == {IdA, IdAP, IdB}

\* Base64 texts: "QQ==" (the byte 65), "QUI=" (65, 66), and "QQ", which
\* b64decode rejects
EncA == <<"Q", "Q", "=", "=">>

EncAB == <<"Q", "U", "I", "=">>

EncBad == <<"Q", "Q">>

\* Bounding boxes <<top_left_x, top_left_y, bottom_right_x, bottom_right_y>>:
\* 50 x 900 (below and above the clamp range) and 200 x 150 (inside it)
BoxThin == <<0, 0, 50, 900>>

BoxMid == <<10, 20, 210, 170>>

\* The image descriptors of a page: id, image_base64, data, the "image"
\* attribute (absent, present but not bytes, bytes) and the four coordinates
Descriptors(ids) ==
  [id : ids,
   image_base64 : {Nothing, Just(EncA), Just(EncBad)},
   data : {Nothing, Just(EncAB)},
   image_kind : {"absent", "not_bytes", "bytes"},
   image_bytes : {<<7>>},
   box : {Nothing, Just(BoxThin), Just(BoxMid)}]

\* Descriptors that carry their image inline, one for each id
InlineDescriptors(ids) ==
  {d \in Descriptors(ids) :
     /\ d.image_base64 = Just(EncA) /\ d.data = Nothing
     /\ d.image_kind = "absent" /\ d.box = Nothing}

\* Descriptors that carry only coordinates, one for each id
BoxDescriptors(ids) ==
  {d \in Descriptors(ids) :
     /\ d.image_base64 = Nothing /\ d.data = Nothing
     /\ d.image_kind = "absent" /\ d.box = Just(BoxMid)}

\* ![alt](ref)
Ref(alt, ref) == <<"!", "[">> \o alt \o <<"]", "(">> \o ref \o <<")">>

AltX == <<"x">>

Seps == {<<" ">>, <<NL>>}

\* Markdown texts holding exactly k image references, separated by a blank
\* or a newline
RECURSIVE MdWith(_)
MdWith(k) ==
  IF k = 0 THEN {<<"t">>}
  ELSE IF k = 1 THEN {Ref(AltX, r) : r \in Ids}
  ELSE {m \o s \o Ref(AltX, r) : m \in MdWith(k - 1), s \in Seps, r \in Ids}

\* All sequences of at most n elements of S
RECURSIVE SeqsUpTo(_, _)
SeqsUpTo(S, n) ==
  IF n = 0 THEN {<<>>}
  ELSE LET T == SeqsUpTo(S, n - 1)
       IN  T \cup {Append(t, x) : t \in {u \in T : Len(u) = n - 1}, x \in S}

(***************************************************************************)
(* Image discovery (the two passes) and the markdown rewriting             *)
(***************************************************************************)
Range(q) == {q[i] : i \in 1..Len(q)}

JPEG == <<"j", "p", "e", "g">>

\* The value stored under 'image_object' for an entry that has none
NoObject ==
  [id |-> <<>>, image_base64 |-> Nothing, data |-> Nothing,
   image_kind |-> "absent", image_bytes |-> <<>>, box |-> Nothing]

\* The empty dict. A dict is its keys in insertion order and their values.
EmptyDict == [keys |-> <<>>, info |-> <<>>]

\* d[k] = v: a new key goes last, a known key keeps its place
DictSet(d, k, v) ==
  [keys |-> IF k \in Range(d.keys) THEN d.keys ELSE Append(d.keys, k),
   info |-> (k :> v) @@ d.info]

\* The entry the first pass makes for an identifier found in markdown
MarkdownEntry(img_id) ==
  [data |-> Nothing, filename |-> img_id \o <<".">> \o JPEG,
   extracted |-> FALSE, has_object |-> FALSE, image_object |-> NoObject]

\* The matches of one page, in order: an identifier is added once
RECURSIVE FirstPassMatches(_, _, _)
FirstPassMatches(d, matches, i) ==
  IF i > Len(matches) THEN d
  ELSE LET img_id == BaseId(matches[i][2])
       IN  FirstPassMatches(
             IF img_id \in Range(d.keys) THEN d
             ELSE DictSet(d, img_id, MarkdownEntry(img_id)),
             matches, i + 1)

\* First pass: the identifiers referenced in the markdown of the pages
RECURSIVE FirstPass(_, _, _)
FirstPass(d, pages, p) ==
  IF p > Len(pages) THEN d
  ELSE FirstPass(FirstPassMatches(d, FindAll(pages[p].markdown), 1), pages, p + 1)

\* The second pass with its two attributes looked at in the other order
DescriptorEntryDataFirst(image) ==
  [data |-> IF image.data # Nothing THEN image.data
            ELSE IF image.image_base64 # Nothing THEN image.image_base64
            ELSE Nothing,
   filename |-> image.id \o <<".">> \o ExtOf(image.id),
   extracted |-> TRUE, has_object |-> TRUE, image_object |-> image]

\* The entry the second pass makes for a descriptor
DescriptorEntry(image) ==
  [data |-> IF image.image_base64 # Nothing THEN image.image_base64
            ELSE IF image.data # Nothing THEN image.data
            ELSE Nothing,
   filename |-> image.id \o <<".">> \o ExtOf(image.id),
   extracted |-> TRUE, has_object |-> TRUE, image_object |-> image]

RECURSIVE SecondPassImages(_, _, _)
SecondPassImages(d, imgs, i) ==
  IF i > Len(imgs) THEN d
  ELSE SecondPassImages(DictSet(d, imgs[i].id, DescriptorEntry(imgs[i])), imgs, i + 1)

\* Second pass: the descriptors of the pages add or replace entries
RECURSIVE SecondPass(_, _, _)
SecondPass(d, pages, p) ==
  IF p > Len(pages) THEN d
  ELSE SecondPass(SecondPassImages(d, pages[p].images, 1), pages, p + 1)

\* images, as the two passes leave it
CollectImages(pages) == SecondPass(FirstPass(EmptyDict, pages, 1), pages, 1)

\* '![{img_id}]({file_stem}/{img_filename})'
Replacement(img_id, file_stem, img_filename) ==
  Ref(img_id, file_stem \o <<"/">> \o img_filename)

\* The two patterns of one identifier, applied one after the other:
\* the identifier itself, then its base form
RewriteOne(md, img_id, file_stem, img_filename) ==
  LET replacement == Replacement(img_id, file_stem, img_filename)
  IN  ReSub(ReSub(md, img_id, replacement), BaseId(img_id), replacement)

\* A page's markdown after the patterns of every identifier, in the order
\* of images.keys()
RECURSIVE RewritePage(_, _, _, _)
RewritePage(md, d, file_stem, k) ==
  IF k > Len(d.keys) THEN md
  ELSE RewritePage(
         RewriteOne(md, d.keys[k], file_stem, d.info[d.keys[k]].filename),
         d, file_stem, k + 1)

\* combined_markdown: every page rewritten, each followed by a blank line
RECURSIVE CombineFrom(_, _, _, _)
CombineFrom(pages, d, file_stem, p) ==
  IF p > Len(pages) THEN <<>>
  ELSE RewritePage(pages[p].markdown, d, file_stem, 1) \o <<NL, NL>>
       \o CombineFrom(pages, d, file_stem, p + 1)

CombinedMarkdown(pages, d, file_stem) == CombineFrom(pages, d, file_stem, 1)

(***************************************************************************)
(* Saving one image: the fallback chain of the image save loop             *)
(***************************************************************************)
\* What a file holds: bytes, or a rendered placeholder (its label and size)
BytesFile(b) == [kind |-> "bytes", bytes |-> b, label |-> <<>>, width |-> 0, height |-> 0]

\* create_placeholder_image(img_id, width, height)
create_placeholder_image(img_id, width, height) ==
  [kind |-> "placeholder", bytes |-> <<>>, label |-> img_id,
   width |-> width, height |-> height]

DefaultWidth == 400

DefaultHeight == 300

MinSide == 100

MaxSide == 800

IMax(a, b) == IF a >= b THEN a ELSE b

IMin(a, b) == IF a <= b THEN a ELSE b

\* max(100, min(800, int(v)))
ClampSide(v) == IMax(MinSide, IMin(MaxSide, v))

\* open(path, "wb").write(content) on the files of the resource folder
WriteFile(files, path, content) == (path :> content) @@ files

\* The state the save loop works on: the files of the resource folder, the
\* pool pdf_images, the lines printed, and whether the image is saved
SaveState(files, pool, log, saved) ==
  [files |-> files, pool |-> pool, log |-> log, saved |-> saved]

\* Methods 4 and 5 without the del of lines 328 and 363
UsePoolImageKeepsEntry(st, img_path, tag, filename, copy_fails) ==
  IF st.saved \/ st.pool = <<>> \/ copy_fails THEN st
  ELSE SaveState(WriteFile(st.files, img_path, BytesFile(Head(st.pool).bytes)),
                 st.pool,
                 Append(st.log, <<tag, filename>>),
                 TRUE)

\* Methods 4 and 5: copy the pool's first image to img_path and delete it
\* from the pool; a failing copy is caught and leaves everything as it was
UsePoolImage(st, img_path, tag, filename, copy_fails) ==
  IF st.saved \/ st.pool = <<>> \/ copy_fails THEN st
  ELSE SaveState(WriteFile(st.files, img_path, BytesFile(Head(st.pool).bytes)),
                 Tail(st.pool),
                 Append(st.log, <<tag, filename>>),
                 TRUE)

\* The except branch printing its success without writing the placeholder
FallbackPlaceholderUnwritten(st, img_id, img_path, filename, fallback_fails) ==
  LET log1 == Append(st.log, <<"Error saving image", img_id>>)
  IN  IF fallback_fails
      THEN SaveState(st.files, st.pool,
                     Append(log1, <<"Failed to create placeholder", img_id>>), FALSE)
      ELSE SaveState(st.files, st.pool,
                     Append(log1, <<"Created fallback placeholder", filename>>), TRUE)

\* The except branch of an image: a default placeholder, or giving up
FallbackPlaceholder(st, img_id, img_path, filename, fallback_fails) ==
  LET log1 == Append(st.log, <<"Error saving image", img_id>>)
  IN  IF fallback_fails
      THEN SaveState(st.files, st.pool,
                     Append(log1, <<"Failed to create placeholder", img_id>>), FALSE)
      ELSE SaveState(WriteFile(st.files, img_path,
                        create_placeholder_image(img_id, DefaultWidth, DefaultHeight)),
                     st.pool,
                     Append(log1, <<"Created fallback placeholder", filename>>), TRUE)

\* The branch of Methods 3 and 4: coordinates but no data. Returns the state,
\* or <<>> when the write of the sized placeholder raises.
MethodCoordinates(st, img_id, img_info, img_path, copy_fails, write_fails) ==
  LET st4 == UsePoolImage(st, img_path, "Used image extracted from PDF",
                          img_info.filename, copy_fails)
      box == img_info.image_object.box[1]
      width == box[3] - box[1]
      height == box[4] - box[2]
  IN  IF st4.saved THEN st4
      ELSE IF write_fails THEN <<>>
      ELSE SaveState(
             WriteFile(st4.files, img_path,
                       create_placeholder_image(img_id, ClampSide(width), ClampSide(height))),
             st4.pool,
             Append(st4.log, <<"Created placeholder with actual dimensions",
                               img_info.filename>>),
             TRUE)

\* Method 5 and the generic placeholder, for what the branches left unsaved.
\* Returns the state, or <<>> when the write of the placeholder raises.
MethodRemaining(st, img_id, img_info, img_path, copy_fails, write_fails) ==
  LET st5 == UsePoolImage(st, img_path, "Used remaining PDF image for",
                          img_info.filename, copy_fails)
  IN  IF st5.saved THEN st5
      ELSE IF write_fails THEN <<>>
      ELSE SaveState(
             WriteFile(st5.files, img_path,
                       create_placeholder_image(img_id, DefaultWidth, DefaultHeight)),
             st5.pool,
             Append(st5.log, <<"Created generic placeholder", img_info.filename>>),
             TRUE)

\* os.path.join(folder, name)
PathJoin(folder, name) == folder \o <<"/">> \o name

\* One turn of the image save loop, for the entry img_id of images.
\* write_fails: the write of the try block raises; copy_fails: the copy from
\* the pool raises; fallback_fails: the placeholder of the except branch raises.
SaveImage(files, pool, img_id, img_info, folder, copy_fails, write_fails, fallback_fails) ==
  LET img_path == PathJoin(folder, img_info.filename)
      st0 == SaveState(files, pool, <<>>, FALSE)
      Fallback(st) == FallbackPlaceholder(st, img_id, img_path, img_info.filename,
                                          fallback_fails)
      OrFallback(r) == IF r = <<>> THEN Fallback(st0) ELSE r
  IN  IF img_info.data # Nothing
      THEN \* Method 1: open(img_path, "wb"), then decode and write
           IF write_fails THEN Fallback(st0)
           ELSE LET decoded == b64decode(img_info.data[1])
                IN  IF decoded = Nothing
                    THEN Fallback(SaveState(WriteFile(files, img_path, BytesFile(<<>>)),
                                            pool, <<>>, FALSE))
                    ELSE SaveState(WriteFile(files, img_path, BytesFile(decoded[1])),
                                   pool,
                                   << <<"Saved image from base64", img_info.filename>> >>,
                                   TRUE)
      ELSE IF img_info.has_object /\ img_info.image_object.image_kind # "absent"
      THEN \* Method 2: the object has an "image" attribute
           IF img_info.image_object.image_kind = "bytes"
           THEN IF write_fails THEN Fallback(st0)
                ELSE SaveState(WriteFile(files, img_path,
                                         BytesFile(img_info.image_object.image_bytes)),
                               pool,
                               << <<"Saved image from bytes", img_info.filename>> >>,
                               TRUE)
           ELSE OrFallback(MethodRemaining(st0, img_id, img_info, img_path,
                                           copy_fails, write_fails))
      ELSE IF img_info.has_object /\ img_info.image_object.box # Nothing
      THEN \* Methods 3 and 4
           OrFallback(MethodCoordinates(st0, img_id, img_info, img_path,
                                        copy_fails, write_fails))
      ELSE OrFallback(MethodRemaining(st0, img_id, img_info, img_path,
                                      copy_fails, write_fails))

(***************************************************************************)
(* Bounds and the inputs of a run                                          *)
(***************************************************************************)
\* PDFs in ./in
MaxDocs == 2

\* Images PyPDF2 extracts from one PDF
MaxPool == 2

\* Image references in the markdown of one OCR result
MaxRefs == 2

\* Image descriptors in one OCR result
MaxDescs == 1

\* Pages of one OCR result
MaxPages == 1

Letters == <<"a", "b", "c", "d", "e", "f">>

\* The i-th file glob finds: a.pdf, b.x.pdf, c.pdf, d.x.pdf, ...
PdfName(i) ==
  <<Letters[i]>> \o (IF i % 2 = 0 THEN <<".", "x">> ELSE <<>>)
  \o <<".", "p", "d", "f">>

\* The pages of an OCR result: at most np pages with nr references and nd
\* descriptors of DS in all
RECURSIVE PagesUpTo(_, _, _, _)
PagesUpTo(np, nr, nd, DS) ==
  IF np = 0 THEN {<<>>}
  ELSE {<<>>} \cup
       UNION {
         {<<[markdown |-> m, images |-> ds]>> \o rest :
            m \in MdWith(r),
            ds \in {q \in SeqsUpTo(DS, d) : Len(q) = d},
            rest \in PagesUpTo(np - 1, nr - r, nd - d, DS)} :
         r \in 0..nr, d \in 0..nd}

\* A descriptor with the given attributes
Descriptor(id, image_base64, data, image_kind, box) ==
  [id |-> id, image_base64 |-> image_base64, data |-> data,
   image_kind |-> image_kind, image_bytes |-> <<7>>, box |-> box]

Page(markdown, imgs) == [markdown |-> markdown, images |-> imgs]

\* The OCR results of the batch runs: a page of text; two references and an
\* image given by its coordinates; an image given inline; an image whose
\* inline data cannot be decoded; an image given as bytes
BatchResults ==
  { <<Page(<<"t">>, <<>>)>>,
    <<Page(Ref(AltX, IdA) \o <<" ">> \o Ref(AltX, IdB),
           <<Descriptor(IdAP, Nothing, Nothing, "absent", Just(BoxMid))>>)>>,
    <<Page(Ref(AltX, IdA),
           <<Descriptor(IdA, Just(EncA), Nothing, "absent", Nothing)>>)>>,
    <<Page(<<"t">>, <<Descriptor(IdB, Just(EncBad), Nothing, "absent", Nothing)>>)>>,
    <<Page(<<"t">>, <<Descriptor(IdB, Nothing, Nothing, "bytes", Nothing)>>)>> }

\* The descriptors of an image run: none, or any descriptor followed by up
\* to n - 1 descriptors that carry their image inline or only coordinates
DescriptorSeqs(n) ==
  IF n = 0 THEN {<<>>}
  ELSE {<<>>} \cup
       {<<d>> \o q : d \in Descriptors(Ids),
                     q \in SeqsUpTo(InlineDescriptors(Ids) \cup BoxDescriptors(Ids), n - 1)}

\* The OCR results of the image runs: one page, with or without a reference
\* to an image that has no descriptor, and up to MaxDescs descriptors
ImgResults ==
  {<<Page(m, ds)>> : m \in {<<"t">>, Ref(AltX, IdB)}, ds \in DescriptorSeqs(MaxDescs)}

\* The OCR results of the markdown runs: up to MaxPages pages with up to
\* MaxRefs references and MaxDescs inline descriptors
MdResults == PagesUpTo(MaxPages, MaxRefs, MaxDescs, InlineDescriptors(Ids))

\* The pool extract_images_from_pdf returns: k images, in the order found
PoolOf(k) == [i \in 1..k |-> [id |-> i, bytes |-> <<200 + i>>]]

FileIds == {"file-1", "file-2"}

Urls == {"https://signed/1", "https://signed/2"}

OcrModel == "mistral-ocr-latest"

\* Whether file operations and client calls may fail: they may in the batch
\* runs, they do not in the runs of one PDF
MayFail == BOOLEAN

NeverFails == {FALSE}

InDir == <<".", "/", "i", "n">>

OutDir == <<".", "/", "o", "u", "t">>

\* os.path.join("./out", f"{file_stem}.md")
OutputPath(file_stem) == PathJoin(OutDir, file_stem \o <<".", "m", "d">>)

\* os.path.join("./out", file_stem)
ResourceFolder(file_stem) == PathJoin(OutDir, file_stem)

(***************************************************************************)
(* The state of a run of process_pdfs                                      *)
(***************************************************************************)
VARIABLES
  dry_run,            \* the parameter dry_run
  extract_pdf_images, \* the parameter extract_pdf_images
  api_key,            \* os.environ.get("MISTRAL_API_KEY"): Nothing, or Just(text)
  in_dir,             \* the PDFs of ./in, in the order glob returns them
  pc,                 \* the statement the run is at
  exit_status,        \* Nothing while running, then Just(status of the process)
  output,             \* the lines printed about the batch and its Documents
  client,             \* Nothing, or Just(the Mistral client and its key)
  dirs,               \* the directories made
  pdf_files,          \* what glob returned
  idx,                \* the position of the for loop in pdf_files
  calls,              \* the client calls made for the Document in hand
  uploaded_pdf,       \* the id upload returned
  signed_url,         \* the url get_signed_url returned
  ocr_response,       \* the pages ocr.process returned
  pdf_images,         \* the pool: images extracted from the PDF, not yet used
  images,             \* the dict images of the Document in hand
  img_i,              \* the position of the save loop in images
  img_log,            \* the lines printed about the images of this Document
  res_files,          \* the files written in the resource folder of this Document
  combined_markdown,  \* the rewritten markdown of this Document
  out_files           \* the markdown files in ./out: path -> what was written

vars ==
  <<dry_run, extract_pdf_images, api_key, in_dir, pc, exit_status, output, client,
    dirs, pdf_files, idx, calls, uploaded_pdf, signed_url, ocr_response,
    pdf_images, images, img_i, img_log, res_files, combined_markdown, out_files>>

inputs == <<dry_run, extract_pdf_images, api_key, in_dir>>

\* The variables of the Document in hand
docvars ==
  <<calls, uploaded_pdf, signed_url, ocr_response, pdf_images, images, img_i,
    img_log, res_files, combined_markdown>>

ApiKeys == {Nothing, Just(<<>>), Just(<<"k">>)}

InitState ==
  /\ pc = "start"
  /\ exit_status = Nothing
  /\ output = <<>>
  /\ client = Nothing
  /\ dirs = {}
  /\ pdf_files = <<>>
  /\ idx = 0
  /\ calls = <<>>
  /\ uploaded_pdf = ""
  /\ signed_url = ""
  /\ ocr_response = <<>>
  /\ pdf_images = <<>>
  /\ images = EmptyDict
  /\ img_i = 0
  /\ img_log = <<>>
  /\ res_files = <<>>
  /\ combined_markdown = <<>>
  /\ out_files = <<>>

\* A batch: any flags, any credential, up to MaxDocs PDFs
Init ==
  /\ dry_run \in BOOLEAN
  /\ extract_pdf_images \in BOOLEAN
  /\ api_key \in ApiKeys
  /\ \E n \in 0..MaxDocs : in_dir = [i \in 1..n |-> PdfName(i)]
  /\ InitState

\* One PDF in ./in, and no extraction of its images
InitMd ==
  /\ dry_run \in BOOLEAN
  /\ extract_pdf_images = FALSE
  /\ api_key \in ApiKeys
  /\ in_dir = <<PdfName(1)>>
  /\ InitState

\* One PDF in ./in
InitDoc ==
  /\ dry_run \in BOOLEAN
  /\ extract_pdf_images \in BOOLEAN
  /\ api_key \in ApiKeys
  /\ in_dir = <<PdfName(1)>>
  /\ InitState

filename == pdf_files[idx]

file_stem == PathStem(filename)

resource_folder == ResourceFolder(file_stem)

Say(line) == output' = Append(output, line)

(***************************************************************************)
(* Before the loop                                                         *)
(***************************************************************************)
\* not api_key
KeyMissing == api_key = Nothing \/ api_key = Just(<<>>)

\* The credential check without its "and not dry_run"
CheckKeyAlsoInDryRun ==
  /\ pc = "start"
  /\ IF KeyMissing
     THEN /\ Say(<<"Error: MISTRAL_API_KEY environment variable not set">>)
          /\ exit_status' = Just(1)
          /\ pc' = "exited"
     ELSE /\ pc' = "client"
          /\ UNCHANGED <<output, exit_status>>
  /\ UNCHANGED <<inputs, client, dirs, pdf_files, idx, docvars, out_files>>

\* Lines 83-86: the credential check
CheckKey ==
  /\ pc = "start"
  /\ IF KeyMissing /\ ~dry_run
     THEN /\ Say(<<"Error: MISTRAL_API_KEY environment variable not set">>)
          /\ exit_status' = Just(1)
          /\ pc' = "exited"
     ELSE /\ pc' = "client"
          /\ UNCHANGED <<output, exit_status>>
  /\ UNCHANGED <<inputs, client, dirs, pdf_files, idx, docvars, out_files>>

\* Lines 89-91: the client
InitClient ==
  /\ pc = "client"
  /\ client' = IF ~dry_run THEN Just([api_key |-> api_key[1]]) ELSE Nothing
  /\ pc' = "mkdirs"
  /\ UNCHANGED <<inputs, exit_status, output, dirs, pdf_files, idx, docvars, out_files>>

\* Lines 94-95: ./in and ./out
MakeDirs ==
  /\ pc = "mkdirs"
  /\ dirs' = dirs \cup {InDir, OutDir}
  /\ pc' = "glob"
  /\ UNCHANGED <<inputs, exit_status, output, client, pdf_files, idx, docvars, out_files>>

\* The search for PDFs without the return of lines 100-102
GlobGoesOn ==
  /\ pc = "glob"
  /\ pdf_files' = in_dir
  /\ Say(<<"Found PDF files to process", Len(in_dir)>>)
  /\ pc' = "loop"
  /\ idx' = 1
  /\ UNCHANGED <<inputs, exit_status, client, dirs, docvars, out_files>>

\* Lines 98-104: the PDFs of ./in; none ends the run
Glob ==
  /\ pc = "glob"
  /\ pdf_files' = in_dir
  /\ IF in_dir = <<>>
     THEN /\ Say(<<"No PDF files found in ./in folder">>)
          /\ exit_status' = Just(0)
          /\ pc' = "done"
          /\ idx' = idx
     ELSE /\ Say(<<"Found PDF files to process", Len(in_dir)>>)
          /\ pc' = "loop"
          /\ idx' = 1
          /\ UNCHANGED exit_status
  /\ UNCHANGED <<inputs, client, dirs, docvars, out_files>>

(***************************************************************************)
(* The loop over the PDFs                                                  *)
(***************************************************************************)
\* Lines 418-419, and the loop going on to the next PDF
Except ==
  /\ pc' = "loop"
  /\ idx' = idx + 1

ResetDoc ==
  /\ calls' = <<>>
  /\ uploaded_pdf' = ""
  /\ signed_url' = ""
  /\ ocr_response' = <<>>
  /\ pdf_images' = <<>>
  /\ images' = EmptyDict
  /\ img_i' = 0
  /\ img_log' = <<>>
  /\ res_files' = <<>>
  /\ combined_markdown' = <<>>

\* The loop head without the dry-run branch of line 116
BeginDocIgnoringDryRun(Faults) ==
  /\ pc = "loop"
  /\ idx <= Len(pdf_files)
  /\ \E makedirs_fails \in Faults :
       IF makedirs_fails
       THEN /\ pc' = "crashed"
            /\ exit_status' = Just(1)
            /\ UNCHANGED dirs
       ELSE /\ pc' = "upload"
            /\ dirs' = dirs \cup {resource_folder}
            /\ UNCHANGED exit_status
  /\ Say(<<"Processing:", filename>>)
  /\ ResetDoc
  /\ UNCHANGED <<inputs, client, pdf_files, idx, out_files>>

\* Lines 106-113: the next PDF and its resource folder. os.makedirs stands
\* before the try: when it raises, the exception leaves process_pdfs.
BeginDoc(Faults) ==
  /\ pc = "loop"
  /\ idx <= Len(pdf_files)
  /\ \E makedirs_fails \in Faults :
       IF makedirs_fails
       THEN /\ pc' = "crashed"
            /\ exit_status' = Just(1)
            /\ UNCHANGED dirs
       ELSE /\ pc' = IF dry_run THEN "dry" ELSE "upload"
            /\ dirs' = dirs \cup {resource_folder}
            /\ UNCHANGED exit_status
  /\ Say(<<"Processing:", filename>>)
  /\ ResetDoc
  /\ UNCHANGED <<inputs, client, pdf_files, idx, out_files>>

\* f"# Dummy content for {filename}\n\nThis is a dry run test."
DummyContent(name) ==
  <<"# Dummy content for ">> \o name \o <<NL, NL, "This is a dry run test.">>

\* Lines 116-123: the dry run of one PDF
DryRun(Faults) ==
  /\ pc = "dry"
  /\ \E write_fails \in Faults :
       IF write_fails
       THEN /\ output' = output \o << <<"[DRY RUN] Would process", filename>>,
                                      <<"Error processing", filename>> >>
            /\ UNCHANGED out_files
       ELSE /\ out_files' = (OutputPath(file_stem) :>
                               [kind |-> "dummy", text |-> DummyContent(filename)])
                            @@ out_files
            /\ output' = output \o
                 << <<"[DRY RUN] Would process", filename>>,
                    <<"[DRY RUN] Created dummy output at", OutputPath(file_stem)>> >>
  /\ pc' = "loop"
  /\ idx' = idx + 1
  /\ UNCHANGED <<inputs, exit_status, client, dirs, pdf_files, docvars>>

Call(op, arg, model, ok) == [op |-> op, arg |-> arg, model |-> model, ok |-> ok]

\* What opening and uploading the PDF may come to
UploadOutcomes(Faults) ==
  {"ok"} \cup (IF TRUE \in Faults THEN {"open_fails", "raises"} ELSE {})

\* Lines 126-133: open the PDF and upload it
Upload(Faults, NewIds) ==
  /\ pc = "upload"
  /\ \E outcome \in UploadOutcomes(Faults), id \in NewIds :
       CASE outcome = "open_fails" ->
              /\ Except
              /\ Say(<<"Error processing", filename>>)
              /\ UNCHANGED <<calls, uploaded_pdf>>
         [] outcome = "raises" ->
              /\ Except
              /\ Say(<<"Error processing", filename>>)
              /\ calls' = Append(calls, Call("files.upload", filename, "", FALSE))
              /\ UNCHANGED uploaded_pdf
         [] outcome = "ok" ->
              /\ calls' = Append(calls, Call("files.upload", filename, "", TRUE))
              /\ uploaded_pdf' = id
              /\ pc' = "signed"
              /\ UNCHANGED <<idx, output>>
  /\ UNCHANGED <<inputs, exit_status, client, dirs, pdf_files, signed_url,
                 ocr_response, pdf_images, images, img_i, img_log, res_files,
                 combined_markdown, out_files>>

\* get_signed_url with its exception swallowed: the OCR call follows anyway
GetSignedUrlGoesOn(Faults, NewUrls) ==
  /\ pc = "signed"
  /\ \E raises \in Faults, url \in NewUrls :
       /\ calls' = Append(calls, Call("files.get_signed_url", uploaded_pdf, "", ~raises))
       /\ signed_url' = IF raises THEN signed_url ELSE url
       /\ pc' = "ocr"
       /\ UNCHANGED <<idx, output>>
  /\ UNCHANGED <<inputs, exit_status, client, dirs, pdf_files, uploaded_pdf,
                 ocr_response, pdf_images, images, img_i, img_log, res_files,
                 combined_markdown, out_files>>

\* Line 136: the signed URL of the uploaded file
GetSignedUrl(Faults, NewUrls) ==
  /\ pc = "signed"
  /\ \E raises \in Faults, url \in NewUrls :
       /\ calls' = Append(calls, Call("files.get_signed_url", uploaded_pdf, "", ~raises))
       /\ IF raises
          THEN /\ Except
               /\ Say(<<"Error processing", filename>>)
               /\ UNCHANGED signed_url
          ELSE /\ signed_url' = url
               /\ pc' = "ocr"
               /\ UNCHANGED <<idx, output>>
  /\ UNCHANGED <<inputs, exit_status, client, dirs, pdf_files, uploaded_pdf,
                 ocr_response, pdf_images, images, img_i, img_log, res_files,
                 combined_markdown, out_files>>

\* Lines 139-145: the OCR of the document
OcrProcess(Faults, Results) ==
  /\ pc = "ocr"
  /\ \E raises \in Faults, pages \in Results :
       /\ calls' = Append(calls, Call("ocr.process", signed_url, OcrModel, ~raises))
       /\ IF raises
          THEN /\ Except
               /\ Say(<<"Error processing", filename>>)
               /\ UNCHANGED ocr_response
          ELSE /\ ocr_response' = pages
               /\ pc' = "extract"
               /\ UNCHANGED <<idx, output>>
  /\ UNCHANGED <<inputs, exit_status, client, dirs, pdf_files, uploaded_pdf,
                 signed_url, pdf_images, images, img_i, img_log, res_files,
                 combined_markdown, out_files>>

\* Lines 167-277: the pool, when extraction is asked for, and the two passes
\* that fill images
ExtractAndCollect ==
  /\ pc = "extract"
  /\ IF extract_pdf_images
     THEN \E k \in 0..MaxPool : pdf_images' = PoolOf(k)
     ELSE pdf_images' = <<>>
  /\ images' = CollectImages(ocr_response)
  /\ img_i' = 1
  /\ pc' = IF images'.keys = <<>> THEN "rewrite" ELSE "save"
  /\ UNCHANGED <<inputs, exit_status, output, client, dirs, pdf_files, idx, calls,
                 uploaded_pdf, signed_url, ocr_response, img_log,
                 res_files, combined_markdown, out_files>>

\* Lines 280-384: one turn of the image save loop
SaveImageStep(Faults) ==
  /\ pc = "save"
  /\ \E copy_fails \in Faults, write_fails \in Faults, fallback_fails \in Faults :
       \E st \in {SaveImage(res_files, pdf_images, images.keys[img_i],
                            images.info[images.keys[img_i]], resource_folder,
                            copy_fails, write_fails, fallback_fails)} :
         /\ res_files' = st.files
         /\ pdf_images' = st.pool
         /\ img_log' = img_log \o st.log
  /\ img_i' = img_i + 1
  /\ pc' = IF img_i = Len(images.keys) THEN "rewrite" ELSE "save"
  /\ UNCHANGED <<inputs, exit_status, output, client, dirs, pdf_files, idx, calls,
                 uploaded_pdf, signed_url, ocr_response, images,
                 combined_markdown, out_files>>

\* Lines 387-416: the markdown of the pages, rewritten and joined, and the
\* markdown file of the Document
RewriteAndWrite(Faults) ==
  /\ pc = "rewrite"
  /\ combined_markdown' = CombinedMarkdown(ocr_response, images, file_stem)
  /\ \E write_fails \in Faults :
       IF write_fails
       THEN /\ Say(<<"Error processing", filename>>)
            /\ UNCHANGED out_files
       ELSE /\ out_files' = (OutputPath(file_stem) :>
                               [kind |-> "markdown", text |-> combined_markdown'])
                            @@ out_files
            /\ output' = output \o
                 << <<"Processed and saved to", OutputPath(file_stem)>>,
                    <<"Resources saved to", resource_folder>> >>
  /\ pc' = "loop"
  /\ idx' = idx + 1
  /\ UNCHANGED <<inputs, exit_status, client, dirs, pdf_files, calls, uploaded_pdf,
                 signed_url, ocr_response, pdf_images, images, img_i, img_log,
                 res_files>>

\* Line 421: after the last PDF
Complete ==
  /\ pc = "loop"
  /\ idx > Len(pdf_files)
  /\ Say(<<"Processing complete!">>)
  /\ exit_status' = Just(0)
  /\ pc' = "done"
  /\ UNCHANGED <<inputs, client, dirs, pdf_files, idx, docvars, out_files>>

\* The steps of process_pdfs. Faults: whether file operations and client
\* calls may fail; NewIds, NewUrls: the ids and urls the service hands out;
\* Results: the results the OCR service may return
Step(Faults, NewIds, NewUrls, Results) ==
  \/ CheckKey
  \/ InitClient
  \/ MakeDirs
  \/ Glob
  \/ BeginDoc(Faults)
  \/ DryRun(Faults)
  \/ Upload(Faults, NewIds)
  \/ GetSignedUrl(Faults, NewUrls)
  \/ OcrProcess(Faults, Results)
  \/ ExtractAndCollect
  \/ SaveImageStep(Faults)
  \/ RewriteAndWrite(Faults)
  \/ Complete

Next == Step(MayFail, FileIds, Urls, BatchResults)

NextImg == Step(NeverFails, {"file-1"}, {"https://signed/1"}, ImgResults)

NextMd == Step(NeverFails, {"file-1"}, {"https://signed/1"}, MdResults)

\* Batches of up to MaxDocs PDFs; calls and file operations may fail
Spec == Init /\ [][Next]_vars

\* Lines 83-104, the statements before the loop
BeforeLoop == CheckKey \/ InitClient \/ MakeDirs \/ Glob

\* The same batches, run by a process that does not stop of itself before the
\* loop: one thread executes lines 83-104 one after the other, and none of
\* them waits for anything
SpecFair == Spec /\ WF_vars(BeforeLoop)

\* One PDF, every descriptor: the image save loop
SpecImg == InitDoc /\ [][NextImg]_vars

\* One PDF, every markdown of the bounds: discovery and rewriting
SpecMd == InitMd /\ [][NextMd]_vars

(***************************************************************************)
(* Properties                                                              *)
(***************************************************************************)
KeyError == <<"Error: MISTRAL_API_KEY environment variable not set">>

\* C1: outside dry-run mode, with MISTRAL_API_KEY unset (or empty), the first
\* thing process_pdfs does is print exactly the error line and exit with
\* status 1: nothing else is printed, no directory is made, no client is
\* built, no PDF is looked for or processed. In dry-run mode the missing
\* credential never ends the run: the line is not printed and the exit of
\* the credential check is not taken.
C1_MissingKeyAborts ==
  /\ (~dry_run /\ api_key \in {Nothing, Just(<<>>)} /\ pc # "start") =>
       /\ pc = "exited"
       /\ exit_status = Just(1)
       /\ output = <<KeyError>>
       /\ dirs = {}
       /\ client = Nothing
       /\ pdf_files = <<>> /\ idx = 0
       /\ calls = <<>> /\ out_files = <<>>
  /\ pc = "start" => (output = <<>> /\ exit_status = Nothing)
  /\ dry_run => (pc # "exited" /\ KeyError \notin Range(output))
  /\ pc = "exited" => (~dry_run /\ api_key \in {Nothing, Just(<<>>)})

\* C1, reached: the run has exited on the missing credential with PDFs waiting
C1_Witness ==
  /\ pc = "exited" /\ exit_status = Just(1) /\ api_key = Nothing
  /\ ~dry_run /\ Len(in_dir) >= 1

\* The position in pdf_files of the Document that calls, images, img_log and
\* res_files are of: the one in hand, or the one just left
DocInHand == IF pc \in {"loop", "done"} THEN idx - 1 ELSE idx

\* C2: outside dry-run mode the client calls of a Document are a prefix of
\* upload, get_signed_url, ocr.process, each made at most once and in this
\* order; a call is made only when every earlier call of the Document
\* succeeded; get_signed_url is given the id upload returned, ocr.process the
\* model "mistral-ocr-latest" and the url get_signed_url returned; a Document
\* whose images are handled has made all three calls, each once.
C2_ClientCallOrder ==
  LET order == <<"files.upload", "files.get_signed_url", "ocr.process">>
      n == Len(calls)
  IN  /\ n <= 3
      /\ \A i \in 1..n : calls[i].op = order[i]
      /\ \A i \in 1..(n - 1) : calls[i].ok
      /\ n >= 1 => calls[1].arg = pdf_files[DocInHand]
      /\ n >= 2 => calls[2].arg = uploaded_pdf
      /\ n = 3 => (calls[3].arg = signed_url /\ calls[3].model = "mistral-ocr-latest")
      /\ pc = "upload" => n = 0
      /\ pc = "signed" => (n = 1 /\ calls[1].ok /\ uploaded_pdf \in FileIds)
      /\ pc = "ocr" => (n = 2 /\ calls[2].ok /\ signed_url \in Urls)
      /\ pc \in {"extract", "save", "rewrite"} => (n = 3 /\ calls[3].ok)
      /\ dry_run => n = 0

\* C2, reached: the second Document of a batch has made its three calls
C2_Witness ==
  /\ pc = "rewrite" /\ idx = 2 /\ Len(calls) = 3
  /\ uploaded_pdf = "file-2" /\ calls[2].arg = "file-2"
  /\ signed_url = "https://signed/1" /\ calls[3].arg = "https://signed/1"

\* What the dry run writes for the PDF name
DummyFile(name) == [kind |-> "dummy", text |-> DummyContent(name)]

\* C3: in dry-run mode no client is built, no client call is made, nothing of
\* image discovery, image saving or rewriting is run, and ./out holds nothing
\* but placeholder markdown: every PDF handled so far has its <stem>.md with
\* the dry-run content, unless writing it failed and the failure was
\* reported; when the run is done every discovered PDF has been handled.
C3_DryRun ==
  dry_run =>
    /\ client = Nothing
    /\ calls = <<>> /\ uploaded_pdf = "" /\ signed_url = "" /\ ocr_response = <<>>
    /\ pc \notin {"upload", "signed", "ocr", "extract", "save", "rewrite"}
    /\ images = EmptyDict /\ img_log = <<>> /\ res_files = <<>>
    /\ pdf_images = <<>> /\ combined_markdown = <<>>
    /\ \A j \in 1..(idx - 1) :
         \/ /\ OutputPath(PathStem(pdf_files[j])) \in DOMAIN out_files
            /\ out_files[OutputPath(PathStem(pdf_files[j]))] = DummyFile(pdf_files[j])
         \/ <<"Error processing", pdf_files[j]>> \in Range(output)
    /\ \A path \in DOMAIN out_files :
         \E j \in 1..(idx - 1) :
           /\ path = OutputPath(PathStem(pdf_files[j]))
           /\ out_files[path] = DummyFile(pdf_files[j])
    /\ pc = "done" => (pdf_files = in_dir /\ idx = Len(pdf_files) + (IF in_dir = <<>> THEN 0 ELSE 1))

\* C3, reached: a dry run without a credential has written the placeholder
\* markdown of two PDFs
C3_Witness ==
  /\ dry_run /\ api_key = Nothing /\ pc = "done" /\ Len(pdf_files) = 2
  /\ \A j \in 1..2 :
       /\ OutputPath(PathStem(pdf_files[j])) \in DOMAIN out_files
       /\ out_files[OutputPath(PathStem(pdf_files[j]))] = DummyFile(pdf_files[j])

\* The entry the save loop is at, its descriptor and its path
CurId == images.keys[img_i]

CurInfo == images.info[CurId]

InfoPath(info) ==
  PathJoin(ResourceFolder(PathStem(pdf_files[DocInHand])), info.filename)

\* The inline data of a descriptor: image_base64, or data when that is None
InlineData(d) == IF d.image_base64 # Nothing THEN d.image_base64 ELSE d.data

\* The descriptor carries inline data and the data can be decoded
ValidInline(d) == InlineData(d) # Nothing /\ b64decode(InlineData(d)[1]) # Nothing

Decoded(d) == b64decode(InlineData(d)[1])[1]

\* The entries of images the save loop has been through
Resolved == {images.keys[j] : j \in 1..IMin(img_i - 1, Len(images.keys))}

\* The lines printed about the file name
LinesAbout(name) == {i \in 1..Len(img_log) : img_log[i][2] = name}

\* C4, for the images saved so far: an image whose descriptor carries valid
\* inline data has exactly one line printed about it, "Saved image from
\* base64", and the file at its path holds the decoded bytes.
C4_InlineDataSaved ==
  \A k \in Resolved :
    LET info == images.info[k]
    IN  (info.has_object /\ ValidInline(info.image_object)) =>
          /\ InfoPath(info) \in DOMAIN res_files
          /\ res_files[InfoPath(info)] = BytesFile(Decoded(info.image_object))
          /\ \A i \in LinesAbout(info.filename) : img_log[i][1] = "Saved image from base64"
          /\ Cardinality(LinesAbout(info.filename)) = 1

\* C4, for the step that saves it: the turn of the save loop for an image
\* whose descriptor carries valid inline data writes the decoded bytes,
\* prints "Saved image from base64" and leaves the pool as it was, whatever
\* the pool holds and whatever else the descriptor carries.
C4_InlineDataStep ==
  (pc = "save" /\ CurInfo.has_object /\ ValidInline(CurInfo.image_object)) =>
    /\ pdf_images' = pdf_images
    /\ img_log' = Append(img_log, <<"Saved image from base64", CurInfo.filename>>)
    /\ res_files' = WriteFile(res_files, InfoPath(CurInfo),
                             BytesFile(Decoded(CurInfo.image_object)))

\* C4: a descriptor with valid inline data is resolved from the inline data,
\* the bytes saved are the decoded data, and the pool is not consumed.
C4_InlineData == []C4_InlineDataSaved /\ [][C4_InlineDataStep]_vars

\* C4, reached: with a pool extracted, an image that also has coordinates and
\* an "image" attribute of bytes was saved from its inline data, pool untouched
C4_Witness ==
  /\ pc = "rewrite" /\ Len(pdf_images) = 2
  /\ \E k \in Resolved :
       /\ images.info[k].image_object.image_base64 = Just(EncA)
       /\ images.info[k].image_object.box = Just(BoxMid)
       /\ images.info[k].image_object.image_kind = "bytes"
       /\ res_files[InfoPath(images.info[k])] = BytesFile(<<65>>)
       /\ <<"Saved image from base64", images.info[k].filename>> \in Range(img_log)

\* The sized placeholder of a box
BoxPlaceholder(img_id, box) ==
  create_placeholder_image(img_id, ClampSide(box[3] - box[1]), ClampSide(box[4] - box[2]))

\* C5, as the claim states it: the turn of the save loop for a descriptor with
\* a bounding box, no inline data and no "image" attribute holding bytes,
\* taken while the pool is empty, writes a placeholder of clamp(w, 100, 800)
\* by clamp(h, 100, 800) - also when the descriptor has an "image" attribute
\* that is not bytes.
C5_BoxSizedStep ==
  (/\ pc = "save" /\ CurInfo.has_object
   /\ CurInfo.image_object.box # Nothing
   /\ InlineData(CurInfo.image_object) = Nothing
   /\ CurInfo.image_object.image_kind # "bytes"
   /\ pdf_images = <<>>) =>
    /\ InfoPath(CurInfo) \in DOMAIN res_files'
    /\ res_files'[InfoPath(CurInfo)] = BoxPlaceholder(CurId, CurInfo.image_object.box[1])

C5_BoxSizedPlaceholder == [][C5_BoxSizedStep]_vars

\* C5, the failing case reached: coordinates, no data, an "image" attribute
\* that is not bytes, no pool - and a placeholder of the default size
C5_DefaultSizeReached ==
  /\ pc = "rewrite" /\ ~extract_pdf_images
  /\ \E k \in Resolved :
       /\ images.info[k].image_object.box = Just(BoxMid)
       /\ images.info[k].image_object.image_kind = "not_bytes"
       /\ images.info[k].data = Nothing
       /\ res_files[InfoPath(images.info[k])] =
            create_placeholder_image(k, DefaultWidth, DefaultHeight)

PoolTags == {"Used image extracted from PDF", "Used remaining PDF image for"}

PoolLines(log) == {i \in 1..Len(log) : log[i][1] \in PoolTags}

\* The files of the resource folder that hold the bytes b
FilesHolding(b) ==
  {path \in DOMAIN res_files : res_files[path] = BytesFile(b)}

\* C6, the pool and the files: an entry still in the pool has been copied to
\* no file; the bytes of a pool image are in at most one file; and there are
\* as many files from the pool as resolutions from the pool.
C6_PoolEntryUsedOnce ==
  /\ \A i \in 1..Len(pdf_images) : FilesHolding(pdf_images[i].bytes) = {}
  /\ \A n \in 1..MaxPool : Cardinality(FilesHolding(PoolOf(n)[n].bytes)) <= 1
  /\ Cardinality(UNION {FilesHolding(PoolOf(n)[n].bytes) : n \in 1..MaxPool})
       = Cardinality(PoolLines(img_log))

\* C6, the steps: one turn of the save loop resolves its identifier from the
\* pool at most once, and then the pool loses exactly its first entry, whose
\* bytes go to the path of that identifier; otherwise the pool is unchanged.
\* Outside the save loop the pool changes only where a Document begins
\* (emptied) and where the images of its PDF are extracted.
C6_PoolStep ==
  /\ pc = "save" =>
       LET used == Cardinality(PoolLines(img_log')) - Cardinality(PoolLines(img_log))
       IN  /\ used \in {0, 1}
           /\ used = 0 => pdf_images' = pdf_images
           /\ used = 1 =>
                /\ pdf_images # <<>>
                /\ pdf_images' = Tail(pdf_images)
                /\ res_files'[InfoPath(CurInfo)] = BytesFile(Head(pdf_images).bytes)
                /\ img_log'[Len(img_log')][2] = CurInfo.filename
  /\ pc \notin {"save", "loop", "extract"} => pdf_images' = pdf_images

\* C6: the pool shrinks by exactly one entry per resolution from the pool and
\* by nothing otherwise; no identifier consumes two entries and no entry
\* serves two identifiers.
C6_PoolShrinksByOne == []C6_PoolEntryUsedOnce /\ [][C6_PoolStep]_vars

\* C6, reached: two identifiers of one Document were resolved from a pool of
\* two, each from its own entry, and the pool is empty
C6_Witness ==
  /\ pc = "rewrite" /\ pdf_images = <<>>
  /\ Cardinality(PoolLines(img_log)) = 2
  /\ Cardinality(FilesHolding(<<201>>)) = 1 /\ Cardinality(FilesHolding(<<202>>)) = 1
  /\ Len(images.keys) = 3

\* whether sub occurs in t
Occurs(sub, t) == \E i \in 1..Len(t) : StartsWithAt(t, i, sub)

\* The markdown of the Document just left has been rewritten and written
Rewritten ==
  /\ ~dry_run /\ pc \in {"loop", "done"} /\ DocInHand >= 1
  /\ OutputPath(PathStem(pdf_files[DocInHand])) \in DOMAIN out_files

\* The reference ref matches the identifier k: ref itself, or ref with its
\* extension stripped, equals k or the base form of k
MatchesId(ref, k) ==
  \/ ref = k \/ ref = BaseId(k)
  \/ BaseId(ref) = k \/ BaseId(ref) = BaseId(k)

\* What a reference that matches k is to be rewritten to
RewrittenRef(k) ==
  Replacement(k, PathStem(pdf_files[DocInHand]), images.info[k].filename)

\* C7, as the claim states it: every image reference of a page whose ref
\* matches an identifier of images is found in the written markdown as
\* ![identifier](stem/filename), for an identifier it matches.
C7_MatchingReferencesRewritten ==
  Rewritten =>
    \A p \in 1..Len(ocr_response) :
      \A m \in Range(FindAll(ocr_response[p].markdown)) :
        (\E k \in Range(images.keys) : MatchesId(m[2], k)) =>
          \E k \in Range(images.keys) :
            /\ MatchesId(m[2], k)
            /\ Occurs(RewrittenRef(k), combined_markdown)

\* C7, the failing case reached: the only reference is ![x](a.p), the only
\* identifier is a, and the markdown is written as it came
C7_ReferenceWithExtensionKept ==
  /\ Rewritten
  /\ Len(ocr_response) = 1 /\ ocr_response[1].markdown = Ref(AltX, IdAP)
  /\ images.keys = <<IdA>>
  /\ combined_markdown = Ref(AltX, IdAP) \o <<NL, NL>>

\* C8, as the claim states it: a reference whose ref is no identifier of
\* images and no base form of one is found unchanged in the written
\* markdown, whatever else stands on its page; and a page none of whose
\* references matches is rewritten to itself.
C8_UnmatchedReferencesKept ==
  Rewritten =>
    \A p \in 1..Len(ocr_response) :
      LET md == ocr_response[p].markdown
          Unmatched(ref) == \A k \in Range(images.keys) : ref # k /\ ref # BaseId(k)
      IN  /\ \A m \in Range(FindAll(md)) :
               Unmatched(m[2]) => Occurs(Ref(m[1], m[2]), combined_markdown)
          /\ (\A m \in Range(FindAll(md)) : Unmatched(m[2])) =>
               RewritePage(md, images, PathStem(pdf_files[DocInHand]), 1) = md

\* C8, the failing case reached: ![x](a.p) stands before ![x](b) on one line,
\* no identifier is a.p, and the written markdown has lost the reference
C8_UnmatchedReferenceLost ==
  /\ Rewritten
  /\ Len(ocr_response) = 1
  /\ ocr_response[1].markdown = Ref(AltX, IdAP) \o <<" ">> \o Ref(AltX, IdB)
  /\ images.keys = <<IdA, IdB>>
  /\ combined_markdown = RewrittenRef(IdB) \o <<NL, NL>>

\* C9, as the claim states it: no failure while a Document or an image is
\* handled ends the batch. The run is never left by an exception; every PDF
\* before the one in hand has been taken up exactly once; and a run that has
\* gone through its PDFs ends with the completion message.
C9_FailuresNeverAbort ==
  /\ pc # "crashed"
  /\ exit_status = Just(1) => pc = "exited"
  /\ \A j \in 1..DocInHand :
       Cardinality({i \in 1..Len(output) : output[i] = <<"Processing:", pdf_files[j]>>}) = 1
  /\ (pc = "done" /\ pdf_files # <<>>) =>
       /\ idx = Len(pdf_files) + 1
       /\ output[Len(output)] = <<"Processing complete!">>

\* C9, the failing case reached: os.makedirs of the resource folder of the
\* first of two PDFs has raised; the run has ended with status 1, without
\* the completion message, and the second PDF was never taken up
C9_BatchAborted ==
  /\ pc = "crashed" /\ exit_status = Just(1)
  /\ Len(pdf_files) = 2 /\ idx = 1
  /\ <<"Processing complete!">> \notin Range(output)
  /\ <<"Processing:", pdf_files[2]>> \notin Range(output)

NoPdfLine == <<"No PDF files found in ./in folder">>

\* What a run on an empty ./in does and leaves
NoPdfsRun ==
  /\ pc \in {"start", "client", "mkdirs", "glob", "done"}
  /\ exit_status \in {Nothing, Just(0)}
  /\ calls = <<>> /\ ocr_response = <<>>
  /\ out_files = <<>> /\ res_files = <<>>
  /\ dirs \subseteq {InDir, OutDir}
  /\ output = (IF pc = "done" THEN <<NoPdfLine>> ELSE <<>>)
  /\ exit_status = Just(0) <=> pc = "done"

\* C10, as the claim states it: with no PDF in ./in the run ends at once and
\* without error, makes no client call, writes no file and reports that
\* there is nothing to process
C10_NoPdfs == in_dir = <<>> => NoPdfsRun

\* The credential check lets the run pass
CredentialOk == dry_run \/ api_key \notin {Nothing, Just(<<>>)}

\* C10, amended: the same for the runs that pass the credential check (dry
\* run, or MISTRAL_API_KEY set): the run goes straight from the check to
\* the client, the two directories and glob, and ends there
C10_NoPdfsSafe == (in_dir = <<>> /\ CredentialOk) => NoPdfsRun

\* C10, amended: such a run does end, with status 0 and the one line
C10_NoPdfsEnds ==
  (in_dir = <<>> /\ CredentialOk) ~>
    (pc = "done" /\ exit_status = Just(0) /\ output = <<NoPdfLine>>)

C10_NoPdfsWithCredential == []C10_NoPdfsSafe /\ C10_NoPdfsEnds

\* C10, reached: a run with a credential, outside dry-run mode, has ended on
\* an empty ./in
C10_Witness ==
  /\ in_dir = <<>> /\ ~dry_run /\ api_key = Just(<<"k">>)
  /\ pc = "done" /\ exit_status = Just(0) /\ output = <<NoPdfLine>>
  /\ client # Nothing /\ dirs = {InDir, OutDir}

\* The lines that tell where the bytes of an image came from
SavedTags ==
  PoolTags \cup {"Saved image from base64", "Saved image from bytes",
                 "Created placeholder with actual dimensions",
                 "Created generic placeholder", "Created fallback placeholder"}

\* C11, one turn of the save loop: whatever fails, the turn ends inside the
\* loop: the loop goes on to the next identifier (or to the rewriting), and
\* nothing is reported against the Document. The turn ends either with a
\* file at the identifier's path and the line that tells where it came
\* from, or with "Failed to create placeholder". When a write of the try
\* block raised ("Error saving image"), the file is the default placeholder
\* of the identifier, unless that failed too; when the pool was to be used
\* and its copy raised, the file is a placeholder of the identifier.
C11_SaveStep ==
  pc = "save" =>
    LET new == SubSeq(img_log', Len(img_log) + 1, Len(img_log'))
        last == new[Len(new)]
        errored == <<"Error saving image", CurId>> \in Range(new)
        failed == last = <<"Failed to create placeholder", CurId>>
        path == InfoPath(CurInfo)
    IN  /\ img_i' = img_i + 1 /\ idx' = idx
        /\ pc' = (IF img_i = Len(images.keys) THEN "rewrite" ELSE "save")
        /\ output' = output /\ exit_status' = exit_status
        /\ new # <<>>
        /\ \/ failed
           \/ /\ last[1] \in SavedTags /\ last[2] = CurInfo.filename
              /\ path \in DOMAIN res_files'
        /\ failed => errored
        /\ (errored /\ ~failed) =>
             /\ last = <<"Created fallback placeholder", CurInfo.filename>>
             /\ res_files'[path] = create_placeholder_image(CurId, DefaultWidth, DefaultHeight)
        /\ (/\ CurInfo.data = Nothing /\ CurInfo.image_object.image_kind # "bytes"
            /\ pdf_images # <<>> /\ pdf_images' = pdf_images /\ ~failed) =>
             /\ res_files'[path].kind = "placeholder"
             /\ res_files'[path].label = CurId

\* C11, the Document: the rewriting is reached only through every
\* identifier, and a Document whose images failed has its markdown written
\* unless that write fails itself
C11_AfterImages ==
  /\ pc = "rewrite" => img_i = Len(images.keys) + 1
  /\ Rewritten => img_i = Len(images.keys) + 1

\* C11: a failure while the bytes of an image are saved stays inside the
\* resolution of that identifier and ends in a placeholder for it, or, when
\* the placeholder fails too, in a reported failure; the loop goes on and
\* the markdown is written.
C11_ImageFailuresStayLocal == [][C11_SaveStep]_vars /\ []C11_AfterImages

\* C11, reached: of the images of one Document one ended in the fallback
\* placeholder and one could not be saved at all, and the markdown of the
\* Document was written
C11_Witness ==
  /\ Rewritten
  /\ \E k1, k2 \in Range(images.keys) :
       /\ k1 # k2
       /\ <<"Failed to create placeholder", k1>> \in Range(img_log)
       /\ <<"Created fallback placeholder", images.info[k2].filename>> \in Range(img_log)
       /\ res_files[InfoPath(images.info[k2])] =
            create_placeholder_image(k2, DefaultWidth, DefaultHeight)

\* The identifiers met in the OCR result: the refs of the image references
\* of the markdown, as written, and the ids of the descriptors
Encountered ==
  UNION {{m[2] : m \in Range(FindAll(ocr_response[p].markdown))}
         \cup {d.id : d \in Range(ocr_response[p].images)} : p \in 1..Len(ocr_response)}

\* images holds what the two passes made of the OCR result in ocr_response
Discovered == ~dry_run /\ (pc \in {"save", "rewrite"} \/ Rewritten)

\* C12, as the claim states it: images has one entry for each identifier met,
\* and never more entries than identifiers - an identifier met several
\* times, or both as a reference and as a descriptor id, has one entry; and
\* once the images are saved there is one file and one line for each entry.
C12_OneImagePerIdentifier ==
  Discovered =>
    /\ Cardinality({BaseId(x) : x \in Encountered}) <= Len(images.keys)
    /\ Len(images.keys) <= Cardinality(Encountered)
    /\ \A i, j \in 1..Len(images.keys) : images.keys[i] = images.keys[j] => i = j
    /\ Rewritten =>
         /\ Cardinality(DOMAIN res_files) = Len(images.keys)
         /\ \A k \in Range(images.keys) :
              Cardinality(LinesAbout(images.info[k].filename)) = 1

\* C12, the failing case reached: the markdown refers to a.p, the one
\* descriptor has the id a.p, and there are two entries, a and a.p, with two
\* files: a placeholder a.jpeg and the descriptor's image a.p.p
C12_IdentifierResolvedTwice ==
  /\ Rewritten /\ Len(ocr_response) = 1
  /\ ocr_response[1].markdown = Ref(AltX, IdAP)
  /\ Len(ocr_response[1].images) = 1 /\ ocr_response[1].images[1].id = IdAP
  /\ Encountered = {IdAP}
  /\ images.keys = <<IdA, IdAP>>
  /\ res_files[InfoPath(images.info[IdA])].kind = "placeholder"
  /\ res_files[InfoPath(images.info[IdAP])] = BytesFile(<<65>>)

\* The text of t outside its image references, from position i on: every
\* match of  !\[(.*?)\]\((.*?)\)  is taken out and marked by "<ref>"
RECURSIVE OutsideFrom(_, _)
OutsideFrom(t, i) ==
  IF i > Len(t) THEN <<>>
  ELSE LET m == RefMatchAt(t, i)
       IN  IF m = <<>> THEN <<t[i]>> \o OutsideFrom(t, i + 1)
           ELSE <<"<ref>">> \o OutsideFrom(t, m[3] + 1)

Outside(t) == OutsideFrom(t, 1)

\* C13, as the claim states it: the rewritten markdown of a page has as many
\* image references as the page had, in the same order - each one either as
\* it was or rewritten to ![identifier](stem/filename) for an identifier its
\* ref matches - and the text outside the references is as it was.
C13_RewritingKeepsTheRest ==
  Rewritten =>
    \A p \in 1..Len(ocr_response) :
      LET md  == ocr_response[p].markdown
          out == RewritePage(md, images, PathStem(pdf_files[DocInHand]), 1)
          was == FindAll(md)
          now == FindAll(out)
      IN  /\ Len(now) = Len(was)
          /\ \A i \in 1..Len(was) :
               i <= Len(now) =>
                 \/ now[i] = was[i]
                 \/ \E k \in Range(images.keys) :
                      /\ MatchesId(was[i][2], k)
                      /\ Ref(now[i][1], now[i][2]) = RewrittenRef(k)
          /\ Outside(out) = Outside(md)
          /\ Occurs(out, combined_markdown)

\* C13, the failing case reached: ![x](b) stands before ![x](a) on one line,
\* both are identifiers, and the written markdown holds one reference, to a
C13_ReferenceSwallowed ==
  /\ Rewritten
  /\ Len(ocr_response) = 1
  /\ ocr_response[1].markdown = Ref(AltX, IdB) \o <<" ">> \o Ref(AltX, IdA)
  /\ images.keys = <<IdB, IdA>>
  /\ Len(FindAll(combined_markdown)) = 1
  /\ combined_markdown = RewrittenRef(IdA) \o <<NL, NL>>

\* The file a reference of the written markdown points at, its src being
\* relative to the output directory
TargetOf(src) == PathJoin(OutDir, src)

\* C14, as the claim states it: when a reference of a page has as its ref the
\* base form of the id of a descriptor that carries valid inline data, the
\* written markdown holds a reference that points at a file holding the
\* decoded inline data of that descriptor.
C14_BaseFormReferenceGetsInlineImage ==
  Rewritten =>
    \A p, q \in 1..Len(ocr_response) :
      \A m \in Range(FindAll(ocr_response[p].markdown)) :
        \A d \in Range(ocr_response[q].images) :
          (m[2] = BaseId(d.id) /\ ValidInline(d)) =>
            \E r \in Range(FindAll(combined_markdown)) :
              /\ TargetOf(r[2]) \in DOMAIN res_files
              /\ res_files[TargetOf(r[2])] = BytesFile(Decoded(d))

\* C14, the failing case reached: the page refers to a, its descriptor a.p
\* carries valid inline data that is saved as a.p.p, and the one reference
\* of the written markdown points at a.jpeg, a placeholder
C14_BaseFormReferenceGetsPlaceholder ==
  /\ Rewritten
  /\ Len(ocr_response) = 1
  /\ ocr_response[1].markdown = Ref(AltX, IdA)
  /\ Len(ocr_response[1].images) = 1
  /\ ocr_response[1].images[1].id = IdAP /\ ValidInline(ocr_response[1].images[1])
  /\ res_files[InfoPath(images.info[IdAP])] = BytesFile(Decoded(ocr_response[1].images[1]))
  /\ combined_markdown = RewrittenRef(IdA) \o <<NL, NL>>
  /\ TargetOf(FindAll(combined_markdown)[1][2]) = InfoPath(images.info[IdA])
  /\ res_files[InfoPath(images.info[IdA])].kind = "placeholder"

\* The descriptors of the OCR result that carry no inline data and no object
\* bytes, as <<page, position>>
BareDescriptors ==
  {pq \in UNION {{<<p, q>> : q \in 1..Len(ocr_response[p].images)} :
                  p \in 1..Len(ocr_response)} :
     LET d == ocr_response[pq[1]].images[pq[2]]
     IN  InlineData(d) = Nothing /\ d.image_kind # "bytes"}

\* The entries of images that come from a descriptor and hold no inline data
\* and no object bytes
BareEntries ==
  {k \in Range(images.keys) :
     /\ images.info[k].has_object
     /\ images.info[k].data = Nothing
     /\ images.info[k].image_object.image_kind # "bytes"}

\* The size of the pool before the save loop: what is left of it and what
\* the loop has taken from it
PoolAtStart == Len(pdf_images) + Cardinality(PoolLines(img_log))

\* C15, as the claim states it: with no write or copy failing, when the pool
\* held at least as many images as there are descriptors without inline data
\* and object bytes, each of these is saved from the pool - one pool line
\* about its file, the file holding the bytes of a pool image - and none of
\* them is a placeholder, whatever the markdown refers to.
C15_PoolServesDescriptors ==
  (Rewritten /\ PoolAtStart >= Cardinality(BareDescriptors)) =>
    \A k \in BareEntries :
      /\ \E i \in PoolLines(img_log) : img_log[i][2] = images.info[k].filename
      /\ InfoPath(images.info[k]) \in DOMAIN res_files
      /\ res_files[InfoPath(images.info[k])].kind = "bytes"
      /\ \E n \in 1..MaxPool :
           res_files[InfoPath(images.info[k])] = BytesFile(PoolOf(n)[n].bytes)

\* C15, the failing case reached: the markdown refers to b, the one
\* descriptor is a, with a box and nothing else, the pool held one image;
\* b.jpeg is the pool image and a.jpeg a placeholder of the size of the box
C15_PoolTakenByReference ==
  /\ Rewritten /\ Len(ocr_response) = 1
  /\ ocr_response[1].markdown = Ref(AltX, IdB)
  /\ Len(ocr_response[1].images) = 1 /\ ocr_response[1].images[1].id = IdA
  /\ BareDescriptors = {<<1, 1>>} /\ BareEntries = {IdA}
  /\ PoolAtStart = 1 /\ pdf_images = <<>>
  /\ images.keys = <<IdB, IdA>>
  /\ img_log = << <<"Used remaining PDF image for", images.info[IdB].filename>>,
                  <<"Created placeholder with actual dimensions", images.info[IdA].filename>> >>
  /\ res_files[InfoPath(images.info[IdB])] = BytesFile(PoolOf(1)[1].bytes)
  /\ res_files[InfoPath(images.info[IdA])].kind = "placeholder"

====
